---- MODULE Spec2Model ----
(***************************************************************************)
(* Model of the retrieval / generation / conversational-agent core of the  *)
(* RAG backend (services/retriever.py, services/gen.py,                    *)
(* services/langgraph_agent.py, services/faiss_db.py).                     *)
(*                                                                         *)
(* Texts are sequences of segments.  A segment is a single character, or   *)
(* (for fixed literals such as the refusal text, file names and user       *)
(* messages) a run of characters that contains no '<', '>', '/', newline   *)
(* and neither starts nor ends with whitespace; such a run is inert for    *)
(* str.strip() and for the regular expressions of _strip_think_content.    *)
(* Chunk contents, whose length the retriever measures, are written one    *)
(* character per segment.  The word "think" of the tags is abbreviated to  *)
(* the single letter t / T, so "<think>" is <<"<","t",">">> and            *)
(* "</think>" is <<"<","/","t",">">>.                                      *)
(*                                                                         *)
(* Embedding vectors are integer vectors; the non-zero ones all have       *)
(* Euclidean norm 5 (the embedder normalises), the zero vector exercises   *)
(* the na == 0 or nb == 0 branch of cosine().  Cosines are compared        *)
(* exactly (as rationals), floating-point rounding is not modelled.        *)
(***************************************************************************)
EXTENDS Integers, Sequences, FiniteSets, TLC

VARIABLES vector_store, retr, gen, think, checkpoints, run,
          threads, requests, clock, vector_db, disk, boot, upload, titled

\* the state of the thread-metadata store and the requests of app2.py
webVars == <<threads, requests, clock>>

\* the state of app.py's own index, the saved index folder, and the records of
\* the last process start and the last upload request
storeVars == <<vector_db, disk, boot, upload>>

vars == <<vector_store, retr, gen, think, checkpoints, run, webVars, storeVars, titled>>

\* ------------------------------------------------------------------ text

Rep(c, n) == [i \in 1..n |-> c]

Min(a, b) == IF a <= b THEN a ELSE b

Max(a, b) == IF a >= b THEN a ELSE b

\* characters str.strip() removes
Whitespace == {" ", "\n", "\t"}

RECURSIVE LStrip(_)
LStrip(s) == IF s # <<>> /\ Head(s) \in Whitespace THEN LStrip(Tail(s)) ELSE s

RECURSIVE RStrip(_)
RStrip(s) ==
    IF s # <<>> /\ s[Len(s)] \in Whitespace THEN RStrip(SubSeq(s, 1, Len(s) - 1)) ELSE s

\* str.strip()
StripWs(s) == RStrip(LStrip(s))

\* ------------------------------------------------------------- documents

\* Chunk identifiers of the modelled corpus.
Chunks == {"A", "B", "C", "D", "E", "F", "G", "Y"}

\* doc.page_content
page_content(d) ==
    CASE d = "A" -> Rep("A", 25)
      [] d = "B" -> Rep("B", 10)
      [] d = "C" -> Rep("C", 30)
      [] d = "D" -> <<" ", " ">> \o Rep("D", 20) \o <<" ", "\n">>
      [] d = "E" -> Rep("E", 21)
      [] d = "F" -> <<" ">> \o Rep("F", 21) \o <<"\n">>
      [] d = "G" -> Rep("G", 22)
      [] d = "Y" -> <<"E", "r", "r", "o", "r", " ", "e", "x", "t", "r", "a", "c", "t", "i", "n", "g", " ", "Y", "o", "u", "T", "u", "b", "e", " ", "t", "r", "a", "n", "s", "c", "r", "i", "p", "t", ":", " ", "e">>

NoSource == <<"<none>">>

\* doc.metadata["source"], NoSource when the key is absent
metadata_source(d) ==
    CASE d = "A" -> <<"a.pdf">>
      [] d = "B" -> <<"b.pdf">>
      [] d = "C" -> <<"c.pdf">>
      [] d = "D" -> <<"d.pdf">>
      [] d = "E" -> NoSource
      [] d = "F" -> <<"f.pdf">>
      [] d = "G" -> <<"g.pdf">>
      [] d = "Y" -> <<"yt-url">>

\* The user queries of the model.
Queries == {<<"q1">>, <<"q2">>, <<"q0">>}

\* Embedder.embed_query / embed_documents: a deterministic function of the text.
embed(text) ==
    CASE text = <<"q1">> -> <<4, 3>>
      [] text = <<"q2">> -> <<5, 0>>
      [] text = <<"q0">> -> <<0, 0>>
      [] text = page_content("A") -> <<3, 4>>
      [] text = page_content("B") -> <<4, 3>>
      [] text = page_content("C") -> <<5, 0>>
      [] text = page_content("D") -> <<-5, 0>>
      [] text = page_content("E") -> <<0, 0>>
      [] text = page_content("F") -> <<4, -3>>
      [] text = page_content("G") -> <<4, -3>>
      [] OTHER -> <<0, 5>>

\* The vectors and stripped content lengths of the corpus, computed once.
QueryVec == [q \in Queries |-> embed(q)]

ChunkVec == [d \in Chunks |-> embed(page_content(d))]

\* content_length = len(doc.page_content.strip())
ContentLength == [d \in Chunks |-> Len(StripWs(page_content(d)))]

Dot(a, b) == a[1] * b[1] + a[2] * b[2]

\* squared L2 distance, the metric of faiss.IndexFlatL2
L2(a, b) == (a[1] - b[1]) * (a[1] - b[1]) + (a[2] - b[2]) * (a[2] - b[2])

\* The uploads of the model: each is the chunk list one ingestion hands to
\* load_into_db.
Batches ==
    { <<"A", "B", "C">>,
      <<"D", "B", "B", "D">>,
      <<"E", "G", "F", "C", "A">> }

MaxIndex == 13

MaxK == 4

\* ------------------------------------------------------------- retriever

\* FAISS.similarity_search(query, k) on an IndexFlatL2 store: the positions of
\* the k entries nearest to the query vector, nearest first.  The order among
\* entries at equal distance is the index library's; both orders are modelled
\* (tie = "asc": lower position first, "desc": higher position first).
SearchKey(store, query, tie, p) ==
    L2(QueryVec[query], ChunkVec[store[p]]) * (Len(store) + 1)
        + (IF tie = "asc" THEN p ELSE Len(store) + 1 - p)

\* the position p placed into a nearest-first list of positions
InsertNearest(store, query, tie, sorted, p) ==
    LET key == SearchKey(store, query, tie, p)
        n == Cardinality({i \in 1..Len(sorted) :
                             SearchKey(store, query, tie, sorted[i]) < key})
    IN SubSeq(sorted, 1, n) \o <<p>> \o SubSeq(sorted, n + 1, Len(sorted))

RECURSIVE NearestFirst(_, _, _, _)
NearestFirst(store, query, tie, n) ==
    IF n = 0 THEN <<>>
    ELSE InsertNearest(store, query, tie, NearestFirst(store, query, tie, n - 1), n)

\* the keys are pairwise different, so the order is total
similarity_search(store, query, k, tie) ==
    SubSeq(NearestFirst(store, query, tie, Len(store)), 1, Min(k, Len(store)))

CandidateFactor == 3

CandidateFloor == 8

\* the candidate count without its floor: k * 3
candidate_k_nofloor(k) == k * CandidateFactor

\* candidate_k = max(k * 3, 8)
candidate_k(k) == Max(k * CandidateFactor, CandidateFloor)

\* if content_length > 20
MinContentLen == 20

\* the filter measuring the content as stored, without strip()
filtered_results_unstripped(store, results) ==
    SelectSeq(results, LAMBDA p : Len(page_content(store[p])) > MinContentLen)

\* the soft-filtering loop: keeps the candidates whose stripped content is long enough
filtered_results(store, results) ==
    SelectSeq(results, LAMBDA p : ContentLength[store[p]] > MinContentLen)

Sgn(x) == IF x > 0 THEN 1 ELSE IF x < 0 THEN -1 ELSE 0

\* cosine(a, b): the score is the real number sign(num) * sqrt(|num| / den), kept
\* as the pair <<num, den>> so that scores are compared exactly.
cosine(a, b) ==
    IF Dot(a, a) = 0 \/ Dot(b, b) = 0 THEN <<0, 1>>
    ELSE <<Sgn(Dot(a, b)) * Dot(a, b) * Dot(a, b), Dot(a, a) * Dot(b, b)>>

\* s1 >= s2 and s1 = s2 on scores
ScoreGE(s1, s2) == s1[1] * s2[2] >= s2[1] * s1[2]

ScoreEQ(s1, s2) == s1[1] * s2[2] = s2[1] * s1[2]

\* The same insertion with the comparison made strict: equal scores change places.
RECURSIVE InsertDescUnstable(_, _)
InsertDescUnstable(sorted, item) ==
    IF sorted = <<>> THEN <<item>>
    ELSE IF ~ScoreGE(item[1], Head(sorted)[1]) THEN <<Head(sorted)>> \o InsertDescUnstable(Tail(sorted), item)
    ELSE <<item>> \o sorted

\* One insertion of list.sort(key=score, reverse=True): the sort is stable, so an
\* item goes after every earlier item whose score is greater or equal.
RECURSIVE InsertDesc(_, _)
InsertDesc(sorted, item) ==
    IF sorted = <<>> THEN <<item>>
    ELSE IF ScoreGE(Head(sorted)[1], item[1]) THEN <<Head(sorted)>> \o InsertDesc(Tail(sorted), item)
    ELSE <<item>> \o sorted

RECURSIVE SortDesc(_)
SortDesc(scored) ==
    IF scored = <<>> THEN <<>>
    ELSE InsertDesc(SortDesc(SubSeq(scored, 1, Len(scored) - 1)), scored[Len(scored)])

\* Stage 2 up to the sort: scored_docs after scored_docs.sort(reverse=True), as
\* the list of the documents (positions) in sorted order.
rerank(store, query, docs) ==
    LET query_vec == QueryVec[query]
        scored_docs == [i \in 1..Len(docs) |->
                          <<cosine(query_vec, ChunkVec[store[docs[i]]]), docs[i]>>]
        sorted == SortDesc(scored_docs)
    IN [i \in 1..Len(sorted) |-> sorted[i][2]]

\* scored_docs[:k]
TopK(docs, k) == SubSeq(docs, 1, Min(k, Len(docs)))

\* prompt_retriever with the reranking embeddings computed before the check for
\* an empty filtered list
prompt_retriever_eager(store, query, k, tie, fail) ==
    LET results == similarity_search(store, query, candidate_k(k), tie)
        filtered == filtered_results(store, results)
    IN IF fail = "search"
       THEN [outcome |-> "raised", raised_in |-> "similarity_search", docs |-> <<>>,
             results |-> <<>>, filtered |-> <<>>, embed_calls |-> 0]
       ELSE IF fail = "embed"
       THEN [outcome |-> "raised", raised_in |-> "embed_query", docs |-> <<>>,
             results |-> results, filtered |-> filtered, embed_calls |-> 1]
       ELSE [outcome |-> "returned", raised_in |-> "none",
             docs |-> TopK(rerank(store, query, filtered), k),
             results |-> results, filtered |-> filtered, embed_calls |-> 2]

\* prompt_retriever(query, k).  fail names the external call that would raise:
\* "search" (similarity_search), "embed" (embed_query of the reranking stage).
\* outcome "raised" is the customException of the except clause; embed_calls
\* counts the embedder calls of the reranking stage.
prompt_retriever(store, query, k, tie, fail) ==
    LET results == similarity_search(store, query, candidate_k(k), tie)
        filtered == filtered_results(store, results)
    IN IF fail = "search"
       THEN [outcome |-> "raised", raised_in |-> "similarity_search", docs |-> <<>>,
             results |-> <<>>, filtered |-> <<>>, embed_calls |-> 0]
       ELSE IF filtered = <<>>
       THEN [outcome |-> "returned", raised_in |-> "none", docs |-> <<>>,
             results |-> results, filtered |-> filtered, embed_calls |-> 0]
       ELSE IF fail = "embed"
       THEN [outcome |-> "raised", raised_in |-> "embed_query", docs |-> <<>>,
             results |-> results, filtered |-> filtered, embed_calls |-> 1]
       ELSE [outcome |-> "returned", raised_in |-> "none",
             docs |-> TopK(rerank(store, query, filtered), k),
             results |-> results, filtered |-> filtered, embed_calls |-> 2]

\* What the libraries do during one call: the tie order of the index search and
\* the external call that raises, if any.
Envs == { <<"asc", "none">>, <<"desc", "none">>, <<"asc", "search">>, <<"desc", "embed">> }

NoCall == [op |-> "none"]

\* -------------------------------------------------- _strip_think_content

\* "<think>" and "</think>", with "think" written t; matching ignores case.
OpenTag == <<"<", "t", ">">>

CloseTag == <<"<", "/", "t", ">">>

\* re.IGNORECASE
Lower(c) == IF c = "T" THEN "t" ELSE c

\* pat matches text at position i
MatchAt(text, i, pat) ==
    /\ i + Len(pat) - 1 <= Len(text)
    /\ \A j \in DOMAIN pat : Lower(text[i + j - 1]) = pat[j]

\* re.sub(r"<think>.*?</think>", "", text), from position i on: the leftmost
\* opening tag with a closing tag after it is removed up to the first such
\* closing tag, and the scan goes on behind it.
RECURSIVE SubClosed(_, _)
SubClosed(text, i) ==
    IF i > Len(text) THEN <<>>
    ELSE LET ends == {j \in (i + Len(OpenTag))..Len(text) : MatchAt(text, j, CloseTag)}
         IN IF MatchAt(text, i, OpenTag) /\ ends # {}
            THEN SubClosed(text, (CHOOSE j \in ends : \A e \in ends : j <= e) + Len(CloseTag))
            ELSE <<text[i]>> \o SubClosed(text, i + 1)

\* $ without re.MULTILINE: the end of the text, or just before a final newline
AtDollar(text, j) == j = Len(text) + 1 \/ (j = Len(text) /\ text[j] = "\n")

\* re.sub(r"<think>.*?(?=<think>|$)", "", text), from position i on: an opening
\* tag is removed up to the next opening tag or the $ position.
RECURSIVE SubOpen(_, _)
SubOpen(text, i) ==
    IF i > Len(text) THEN <<>>
    ELSE LET stops == {j \in (i + Len(OpenTag))..(Len(text) + 1) :
                          MatchAt(text, j, OpenTag) \/ AtDollar(text, j)}
         IN IF MatchAt(text, i, OpenTag)
            THEN SubOpen(text, CHOOSE j \in stops : \A e \in stops : j <= e)
            ELSE <<text[i]>> \o SubOpen(text, i + 1)

\* length of the run of newlines that starts at position i
RECURSIVE NewlineRun(_, _)
NewlineRun(text, i) ==
    IF i <= Len(text) /\ text[i] = "\n" THEN 1 + NewlineRun(text, i + 1) ELSE 0

\* \n{3,}
MinNewlineRun == 3

\* re.sub(r"\n{3,}", "\n\n", text), from position i on
RECURSIVE SubNewlines(_, _)
SubNewlines(text, i) ==
    IF i > Len(text) THEN <<>>
    ELSE IF NewlineRun(text, i) >= MinNewlineRun
         THEN <<"\n", "\n">> \o SubNewlines(text, i + NewlineRun(text, i))
         ELSE <<text[i]>> \o SubNewlines(text, i + 1)

\* the function without its second substitution: unterminated blocks stay
strip_closed_only(text) == StripWs(SubNewlines(SubClosed(text, 1), 1))

\* _strip_think_content(text)
strip_think_content(text) ==
    StripWs(SubNewlines(SubOpen(SubClosed(text, 1), 1), 1))

\* The pieces the texts handed to _strip_think_content are put together from.
Pieces ==
    { <<"<", "t", ">">>, <<"<", "T", ">">>, <<"<", "/", "t", ">">>, <<"F">>,
      <<"\n">>, <<" ">>, <<"<">>, <<"t", ">">> }

MaxPieces == 4

\* ------------------------------------------------------------ get_answer

RefusalText ==
    <<"I couldn't find relevant information in the documents. Can I help you with something else?">>

UnknownSource == <<"Unknown Source">>

\* "\n\n---\n\n"
Separator == <<"\n", "\n", "---", "\n", "\n">>

Digit == <<"0", "1", "2", "3", "4", "5", "6", "7", "8", "9">>

\* str(n) of an f-string, n >= 0
RECURSIVE Decimal(_)
Decimal(n) == IF n < 10 THEN <<Digit[n + 1]>> ELSE Decimal(n \div 10) \o <<Digit[(n % 10) + 1]>>

\* doc.metadata.get("source", "Unknown Source")
source_of(d) == IF metadata_source(d) = NoSource THEN UnknownSource ELSE metadata_source(d)

\* the part numbered i instead of i+1
context_part_from_zero(i, d) ==
    <<"[">> \o Decimal(i) \o <<"]", " ", "Source:", " ">> \o source_of(d) \o <<"\n">>
        \o StripWs(page_content(d))

\* f"[{i+1}] Source: {source}\n{content}" for i, doc in enumerate(documents): i
\* is counted from 0
context_part(i, d) ==
    <<"[">> \o Decimal(i + 1) \o <<"]", " ", "Source:", " ">> \o source_of(d) \o <<"\n">>
        \o StripWs(page_content(d))

\* sep.join(parts)
RECURSIVE Join(_, _)
Join(parts, sep) ==
    IF parts = <<>> THEN <<>>
    ELSE IF Len(parts) = 1 THEN parts[1]
    ELSE parts[1] \o sep \o Join(Tail(parts), sep)

\* final_context for the retrieved documents (positions of the store)
final_context(store, documents) ==
    Join([n \in 1..Len(documents) |-> context_part(n - 1, store[documents[n]])], Separator)

\* render_advanced_rag_prompt_v1: the fixed template with its two fields filled in
render_advanced_rag_prompt_v1(user_request, context) ==
    [user_request |-> user_request, context |-> context]

NoPrompt == [user_request |-> <<>>, context |-> <<>>]

\* def prompt_retriever(query, k: int = 4)
DefaultK == 4

\* What llm.invoke does: it raises, or returns a response with this content.
LLMResponses ==
    { <<"<", "t", ">", "r", "<", "/", "t", ">", "Final answer">>,
      <<"Paris">>,
      <<"<", "T", ">", "r">> }

LLMs == {[raises |-> TRUE, content |-> <<>>]}
            \cup {[raises |-> FALSE, content |-> r] : r \in LLMResponses}

\* get_answer with the LLM invoked before the check for an empty retrieval
get_answer_llm_first(store, query, tie, fail, llm) ==
    LET r == prompt_retriever(store, query, DefaultK, tie, fail)
    IN IF r.outcome = "raised"
       THEN [outcome |-> "raised", documents |-> <<>>, answer |-> <<>>, llm_calls |-> 0,
             prompt |-> NoPrompt, retrieval |-> r.outcome]
       ELSE IF llm.raises
       THEN [outcome |-> "raised", documents |-> r.docs, answer |-> <<>>, llm_calls |-> 1,
             prompt |-> render_advanced_rag_prompt_v1(query, final_context(store, r.docs)),
             retrieval |-> r.outcome]
       ELSE [outcome |-> "returned", documents |-> r.docs,
             answer |-> IF r.docs = <<>> THEN RefusalText ELSE llm.content,
             llm_calls |-> 1,
             prompt |-> render_advanced_rag_prompt_v1(query, final_context(store, r.docs)),
             retrieval |-> r.outcome]

\* get_answer(query).  outcome "raised" is the customException of the except
\* clause; llm_calls counts llm.invoke; answer is str(response.content).
get_answer(store, query, tie, fail, llm) ==
    LET r == prompt_retriever(store, query, DefaultK, tie, fail)
    IN IF r.outcome = "raised"
       THEN [outcome |-> "raised", documents |-> <<>>, answer |-> <<>>, llm_calls |-> 0,
             prompt |-> NoPrompt, retrieval |-> r.outcome]
       ELSE IF r.docs = <<>>
       THEN [outcome |-> "returned", documents |-> <<>>, answer |-> RefusalText,
             llm_calls |-> 0, prompt |-> NoPrompt, retrieval |-> r.outcome]
       ELSE IF llm.raises
       THEN [outcome |-> "raised", documents |-> r.docs, answer |-> <<>>, llm_calls |-> 1,
             prompt |-> render_advanced_rag_prompt_v1(query, final_context(store, r.docs)),
             retrieval |-> r.outcome]
       ELSE [outcome |-> "returned", documents |-> r.docs, answer |-> llm.content,
             llm_calls |-> 1,
             prompt |-> render_advanced_rag_prompt_v1(query, final_context(store, r.docs)),
             retrieval |-> r.outcome]

\* ------------------------------------------------- conversational agent

\* GraphConfig.top_k
top_k == 4

\* retriever_tool's f"[{index}] Source: {source}\n{content}" (index counted from 1)
tool_chunk(index, d) ==
    <<"[">> \o Decimal(index) \o <<"]", " ", "Source:", " ">> \o source_of(d) \o <<"\n">>
        \o StripWs(page_content(d))

\* retriever_tool(query, k): the serialized context, "" without documents; the
\* tool raises when prompt_retriever raises.
retriever_tool(store, query, k, tie, fail) ==
    LET r == prompt_retriever(store, query, k, tie, fail)
    IN IF r.outcome = "raised" THEN [outcome |-> "raised", content |-> <<>>]
       ELSE IF r.docs = <<>> THEN [outcome |-> "returned", content |-> <<>>]
       ELSE [outcome |-> "returned",
             content |-> Join([i \in 1..Len(r.docs) |-> tool_chunk(i, store[r.docs[i]])],
                              Separator)]

\* Messages of the graph state.  id 0 is a message created without id.
HumanMessage(content) ==
    [type |-> "human", content |-> content, tool_calls |-> <<>>, tool_call_id |-> "", id |-> 0]

AIMessage(content, tool_calls) ==
    [type |-> "ai", content |-> content, tool_calls |-> tool_calls, tool_call_id |-> "", id |-> 0]

ToolMessage(content, tool_call_id) ==
    [type |-> "tool", content |-> content, tool_calls |-> <<>>, tool_call_id |-> tool_call_id,
     id |-> 0]

\* a state update that takes the place of the list instead of being merged into it
replace_messages(left, right) == right

\* add_messages(left, right), the reducer of AgentState.messages: a message
\* without id gets a fresh one; a message whose id is in left replaces that
\* message, any other is appended.
RECURSIVE add_messages(_, _)
add_messages(left, right) ==
    IF right = <<>> THEN left
    ELSE LET m == IF Head(right).id = 0 THEN [Head(right) EXCEPT !.id = Len(left) + 1]
                  ELSE Head(right)
             same == {i \in DOMAIN left : left[i].id = m.id}
         IN add_messages(IF same = {} THEN Append(left, m)
                         ELSE [i \in DOMAIN left |-> IF i \in same THEN m ELSE left[i]],
                         Tail(right))

\* the positions of the messages of one type, and the last of them
OfType(messages, type) == {i \in DOMAIN messages : messages[i].type = type}

Last(S) == CHOOSE i \in S : \A j \in S : j <= i

\* next(msg.content for msg in reversed(state["messages"]) if isinstance(msg, HumanMessage))
latest_user_message(messages) == messages[Last(OfType(messages, "human"))].content

\* the lookup made to skip empty tool results: the latest non-empty one
latest_nonempty_tool_content(messages) ==
    LET S == {i \in OfType(messages, "tool") : messages[i].content # <<>>}
    IN IF S = {} THEN <<>> ELSE messages[Last(S)].content

\* answer_node's loop: the content of the latest ToolMessage, "" without one
latest_tool_content(messages) ==
    IF OfType(messages, "tool") = {} THEN <<>>
    ELSE messages[Last(OfType(messages, "tool"))].content

\* retrieve_call_node(state): the update it returns
retrieve_call_node(messages) ==
    <<AIMessage(<<>>, <<[id |-> "retriever-call", name |-> "retriever_tool",
                        query |-> latest_user_message(messages), k |-> top_k]>>)>>

\* the graph with the edge retrieve_call -> answer in place of retrieve_call -> retrieve_tool
next_node_skipping_tool(node) ==
    CASE node = "START" -> "retrieve_call"
      [] node = "retrieve_call" -> "answer"
      [] node = "retrieve_tool" -> "answer"
      [] node = "answer" -> "END"

\* the edges added by _compile_graph
next_node(node) ==
    CASE node = "START" -> "retrieve_call"
      [] node = "retrieve_call" -> "retrieve_tool"
      [] node = "retrieve_tool" -> "answer"
      [] node = "answer" -> "END"

\* ToolNode's message for a tool call that raised, when it handles the error
ToolErrorText == <<"Error: retrieval failed", "\n", " ", "Please fix your mistakes.">>

\* Whether ToolNode re-raises a tool's exception or turns it into a ToolMessage
\* depends on the installed library version; both are modelled.
ToolErrorModes == {"raise", "message"}

\* The LLM outcomes of the agent runs.
AgentLLMs ==
    { [raises |-> TRUE, content |-> <<>>],
      [raises |-> FALSE, content |-> <<"<", "t", ">", "r", "<", "/", "t", ">", "Final answer">>],
      [raises |-> FALSE, content |-> <<"<", "T", ">", "r">>] }

Threads == {"t1", "t2"}

\* The user messages of the chat turns.
Messages == {<<"q1">>, <<"q2">>}

\* The index the agent process loads at start (vector_store.load_db): the three
\* chunks of the scenario and twelve short chunks that are nearest to "q1".
\* On it "q1" retrieves nothing and "q2" retrieves C.
AgentIndex == <<"A", "B", "C">> \o Rep("B", 12)

\* the number of chat turns of a behaviour, over all threads
MaxTurns == 2

Idle == [pc |-> "idle", turn |-> 0, stages |-> <<>>, message |-> <<>>, loaded |-> <<>>,
         tool_query |-> <<>>, tool_result |-> <<>>, tool_done |-> FALSE,
         context |-> <<>>, llm_calls |-> 0, answer |-> <<>>]

TurnsDone == LET f[S \in SUBSET Threads] ==
                    IF S = {} THEN 0
                    ELSE LET t == CHOOSE x \in S : TRUE IN run[t].turn + f[S \ {t}]
             IN f[Threads]

\* ------------------------------------------- initial web and store state

\* the slots of the requests of a behaviour of the web layer
MaxRequests == 2

Requests == 1..MaxRequests

\* a request that has not arrived yet
NoRequest == [kind |-> "none", pc |-> "new", thread |-> "", message |-> <<>>,
              title |-> <<>>, found |-> FALSE, now |-> 0, exists |-> FALSE,
              status |-> 0, answer |-> <<>>, history |-> <<>>]

\* no index folder on disk
NoFolder == [state |-> "absent", index_faiss |-> <<>>, index_pkl |-> <<>>]

NoBoot == [op |-> "none", folder |-> NoFolder, outcome |-> "none", result |-> FALSE,
           store |-> <<>>, added |-> <<>>]

NoUpload == [op |-> "none", count |-> 0, source |-> "none", fail |-> "none", status |-> 0,
             extract |-> "none", saved |-> <<>>, folder |-> NoFolder]

NoTitle == [pieces |-> 0, text |-> <<>>, called |-> FALSE, title |-> <<>>]

\* _init_thread_store() has created the empty table threads; no request has
\* arrived; no index folder has been saved.
InitRest ==
    /\ threads = {}
    /\ requests = [r \in Requests |-> NoRequest]
    /\ clock = 1
    /\ vector_db = <<>>
    /\ disk = NoFolder
    /\ boot = NoBoot
    /\ upload = NoUpload
    /\ titled = NoTitle

\* ---------------------------------------------------------------- actions

\* FAISSDB.load_into_db(documents) on retriever.vector_store
load_into_db(batch) ==
    /\ Len(vector_store) + Len(batch) <= MaxIndex
    /\ vector_store' = vector_store \o batch
    /\ retr' = NoCall
    /\ gen' = NoCall
    /\ UNCHANGED <<think, checkpoints, run, webVars, storeVars, titled>>

\* A call prompt_retriever(query, k); retr records the observed call and what it
\* produced.  The call leaves the store as it is, so one call is observed after
\* each sequence of uploads; the next upload clears the record.
PromptRetriever(query, k, tie, fail) ==
    /\ retr = NoCall /\ gen = NoCall
    /\ retr' = [op |-> "prompt_retriever", store |-> vector_store, query |-> query,
                k |-> k, fail |-> fail,
                call |-> prompt_retriever(vector_store, query, k, tie, fail)]
    /\ UNCHANGED <<vector_store, gen, think, checkpoints, run, webVars, storeVars, titled>>

\* A request answered by get_answer(query); gen records the observed call.
GetAnswer(query, tie, fail, llm) ==
    /\ retr = NoCall /\ gen = NoCall
    /\ gen' = [op |-> "get_answer", store |-> vector_store, query |-> query,
               tie |-> tie, fail |-> fail, llm |-> llm,
               call |-> get_answer(vector_store, query, tie, fail, llm)]
    /\ UNCHANGED <<vector_store, retr, think, checkpoints, run, webVars, storeVars, titled>>

Upload == \E batch \in Batches : load_into_db(batch)

Retrieve == \E q \in Queries, k \in 1..MaxK, env \in Envs :
                PromptRetriever(q, k, env[1], env[2])

Answer == \E q \in Queries, env \in Envs, llm \in LLMs : GetAnswer(q, env[1], env[2], llm)

NoText == [pieces |-> 0, text |-> <<>>, called |-> FALSE, cleaned |-> <<>>]

Init ==
    /\ vector_store = <<>>
    /\ retr = NoCall
    /\ gen = NoCall
    /\ think = NoText
    /\ checkpoints = [t \in Threads |-> <<>>]
    /\ run = [t \in Threads |-> Idle]
    /\ InitRest

Next == Upload \/ Retrieve \/ Answer

Spec == Init /\ [][Next]_vars

\* A text reaches _strip_think_content: it is built piece by piece ...
ThinkAppend ==
    \E piece \in Pieces :
        /\ ~think.called
        /\ think.pieces < MaxPieces
        /\ think' = [think EXCEPT !.pieces = @ + 1, !.text = @ \o piece]
        /\ UNCHANGED <<vector_store, retr, gen, checkpoints, run, webVars, storeVars, titled>>

\* ... and the function is applied to it.
StripThinkContent ==
    /\ ~think.called
    /\ think' = [think EXCEPT !.called = TRUE, !.cleaned = strip_think_content(think.text)]
    /\ UNCHANGED <<vector_store, retr, gen, checkpoints, run, webVars, storeVars, titled>>

NextThink == ThinkAppend \/ StripThinkContent

SpecThink == Init /\ [][NextThink]_vars

\* chat(message, thread_id) starts: graph.invoke loads the thread's checkpoint,
\* merges the input message into it and saves the input checkpoint.  Turns on
\* one thread follow each other.
ChatStart(t, message) ==
    /\ run[t].pc \in {"idle", "END", "failed"}
    /\ TurnsDone < MaxTurns
    /\ checkpoints' = [checkpoints EXCEPT
                         ![t] = add_messages(checkpoints[t], <<HumanMessage(message)>>)]
    /\ run' = [run EXCEPT ![t] = [Idle EXCEPT !.pc = next_node("START"),
                                              !.turn = run[t].turn + 1,
                                              !.message = message,
                                              !.loaded = checkpoints[t]]]
    /\ UNCHANGED <<vector_store, retr, gen, think, webVars, storeVars, titled>>

\* the node retrieve_call runs and its update is checkpointed
RetrieveCallNode(t) ==
    /\ run[t].pc = "retrieve_call"
    /\ checkpoints' = [checkpoints EXCEPT
                         ![t] = add_messages(checkpoints[t], retrieve_call_node(checkpoints[t]))]
    /\ run' = [run EXCEPT ![t].stages = Append(@, "retrieve_call"),
                          ![t].pc = next_node("retrieve_call")]
    /\ UNCHANGED <<vector_store, retr, gen, think, webVars, storeVars, titled>>

\* the node retrieve_tool (ToolNode) runs the tool call of the last message
RetrieveToolNode(t, tie, fail, mode) ==
    /\ run[t].pc = "retrieve_tool"
    /\ LET call == checkpoints[t][Len(checkpoints[t])].tool_calls[1]
           out == retriever_tool(vector_store, call.query, call.k, tie, fail)
           content == IF out.outcome = "raised" THEN ToolErrorText ELSE out.content
       IN IF out.outcome = "raised" /\ mode = "raise"
          THEN /\ run' = [run EXCEPT ![t].stages = Append(@, "retrieve_tool"),
                                     ![t].pc = "failed"]
               /\ UNCHANGED checkpoints
          ELSE /\ checkpoints' = [checkpoints EXCEPT
                                    ![t] = add_messages(checkpoints[t],
                                                        <<ToolMessage(content, call.id)>>)]
               /\ run' = [run EXCEPT ![t].stages = Append(@, "retrieve_tool"),
                                     ![t].tool_query = call.query,
                                     ![t].tool_result = content,
                                     ![t].tool_done = TRUE,
                                     ![t].pc = next_node("retrieve_tool")]
    /\ UNCHANGED <<vector_store, retr, gen, think, webVars, storeVars, titled>>

\* the node answer runs; at END chat returns the stripped last message
AnswerNode(t, llm) ==
    /\ run[t].pc = "answer"
    /\ LET user_message == latest_user_message(checkpoints[t])
           context == latest_tool_content(checkpoints[t])
       IN IF context = <<>>
          THEN /\ checkpoints' = [checkpoints EXCEPT
                                    ![t] = add_messages(checkpoints[t],
                                                        <<AIMessage(RefusalText, <<>>)>>)]
               /\ run' = [run EXCEPT ![t].stages = Append(@, "answer"),
                                     ![t].context = context,
                                     ![t].answer = strip_think_content(RefusalText),
                                     ![t].pc = next_node("answer")]
          ELSE IF llm.raises
          THEN /\ run' = [run EXCEPT ![t].stages = Append(@, "answer"),
                                     ![t].context = context,
                                     ![t].llm_calls = 1,
                                     ![t].pc = "failed"]
               /\ UNCHANGED checkpoints
          ELSE /\ checkpoints' = [checkpoints EXCEPT
                                    ![t] = add_messages(checkpoints[t],
                                              <<AIMessage(strip_think_content(llm.content), <<>>)>>)]
               /\ run' = [run EXCEPT ![t].stages = Append(@, "answer"),
                                     ![t].context = context,
                                     ![t].llm_calls = 1,
                                     ![t].answer =
                                        strip_think_content(strip_think_content(llm.content)),
                                     ![t].pc = next_node("answer")]
    /\ UNCHANGED <<vector_store, retr, gen, think, webVars, storeVars, titled>>

Chat == \E t \in Threads, message \in Messages : ChatStart(t, message)

RetrieveCallStep == \E t \in Threads : RetrieveCallNode(t)

RetrieveToolStep ==
    \E t \in Threads, fail \in {"none", "search"}, mode \in ToolErrorModes :
        RetrieveToolNode(t, "asc", fail, mode)

AnswerStep == \E t \in Threads, llm \in AgentLLMs : AnswerNode(t, llm)

NextAgent == Chat \/ RetrieveCallStep \/ RetrieveToolStep \/ AnswerStep

InitAgent ==
    /\ vector_store = AgentIndex
    /\ retr = NoCall
    /\ gen = NoCall
    /\ think = NoText
    /\ checkpoints = [t \in Threads |-> <<>>]
    /\ run = [t \in Threads |-> Idle]
    /\ InitRest

SpecAgent == InitAgent /\ [][NextAgent]_vars

\* ------------------------------------------- thread store and web layer

\* "New Chat", one character per segment
NewChat == <<"N", "e", "w", " ", "C", "h", "a", "t">>

\* title[:80]
TitleMax == 80

RECURSIVE LStripQuote(_)
LStripQuote(text) ==
    IF text # <<>> /\ Head(text) = "\"" THEN LStripQuote(Tail(text)) ELSE text

RECURSIVE RStripQuote(_)
RStripQuote(text) ==
    IF text # <<>> /\ text[Len(text)] = "\""
    THEN RStripQuote(SubSeq(text, 1, Len(text) - 1)) ELSE text

\* str.strip('"')
StripQuote(text) == RStripQuote(LStripQuote(text))

\* the title without its last strip(): str(response.content).strip().strip('"')
generate_thread_title_nolaststrip(content) ==
    LET title == StripQuote(StripWs(content))
    IN IF title = <<>> THEN NewChat ELSE SubSeq(title, 1, Min(TitleMax, Len(title)))

\* generate_thread_title, from the content of the LLM's response
generate_thread_title(content) ==
    LET title == StripWs(StripQuote(StripWs(content)))
    IN IF title = <<>> THEN NewChat ELSE SubSeq(title, 1, Min(TitleMax, Len(title)))

\* a row of the table threads
Row(id, title, created_at, updated_at, last_message) ==
    [id |-> id, title |-> title, created_at |-> created_at, updated_at |-> updated_at,
     last_message |-> last_message]

\* SELECT ... FROM threads WHERE id = ?
RowsOf(table, thread_id) == {row \in table : row.id = thread_id}

\* cursor.fetchone() is not None
select_exists(table, thread_id) == RowsOf(table, thread_id) # {}

NoThread == [thread_id |-> ""]

\* _get_thread(thread_id)
get_thread(table, thread_id) ==
    IF RowsOf(table, thread_id) = {} THEN NoThread
    ELSE LET row == CHOOSE x \in RowsOf(table, thread_id) : TRUE
         IN [thread_id |-> row.id, title |-> row.title, created_at |-> row.created_at,
             updated_at |-> row.updated_at, last_message |-> row.last_message]

\* the UPDATE without its WHERE clause
update_every_thread(table, thread_id, title, now, last_message) ==
    {[row EXCEPT !.title = title, !.updated_at = now, !.last_message = last_message] :
        row \in table}

\* UPDATE threads SET title = ?, updated_at = ?, last_message = ? WHERE id = ?
update_thread(table, thread_id, title, now, last_message) ==
    {IF row.id = thread_id
     THEN [row EXCEPT !.title = title, !.updated_at = now, !.last_message = last_message]
     ELSE row : row \in table}

\* the INSERT into a table whose id column is no key
insert_thread_nokey(table, thread_id, title, now, last_message) ==
    [outcome |-> "done", table |-> table \cup {Row(thread_id, title, now, now, last_message)}]

\* INSERT INTO threads (id, title, created_at, updated_at, last_message): id is
\* the PRIMARY KEY, a second row with the id raises sqlite3.IntegrityError
insert_thread(table, thread_id, title, now, last_message) ==
    IF RowsOf(table, thread_id) # {}
    THEN [outcome |-> "raised", table |-> table]
    ELSE [outcome |-> "done",
          table |-> table \cup {Row(thread_id, title, now, now, last_message)}]

\* the end of a turn: what the checkpoint holds, and for a turn that returned
\* the answer chat makes of the last message
TurnRaised(messages) == [outcome |-> "raised", messages |-> messages, answer |-> <<>>]

TurnReturned(messages) ==
    [outcome |-> "returned", messages |-> messages,
     answer |-> strip_think_content(messages[Len(messages)].content)]

\* the stage answer of a turn, on the messages checkpointed before it
turn_answer(messages, context, llm) ==
    IF context = <<>>
    THEN TurnReturned(add_messages(messages, <<AIMessage(RefusalText, <<>>)>>))
    ELSE IF llm.raises THEN TurnRaised(messages)
    ELSE TurnReturned(add_messages(messages,
                                   <<AIMessage(strip_think_content(llm.content), <<>>)>>))

\* the turn from the checkpointed tool result on
turn_after_tool(messages, llm) ==
    turn_answer(messages, latest_tool_content(messages), llm)

\* the stage retrieve_tool of a turn, out being what the tool call gave
turn_tool(messages, call, out, mode, llm) ==
    IF out.outcome = "raised"
    THEN IF mode = "raise" THEN TurnRaised(messages)
         ELSE turn_after_tool(add_messages(messages, <<ToolMessage(ToolErrorText, call.id)>>),
                              llm)
    ELSE turn_after_tool(add_messages(messages, <<ToolMessage(out.content, call.id)>>), llm)

\* the turn from the checkpointed tool call on
turn_after_call(messages, call, store, tie, fail, mode, llm) ==
    turn_tool(messages, call, retriever_tool(store, call.query, call.k, tie, fail), mode, llm)

\* the stage retrieve_call of a turn
turn_call(messages, store, tie, fail, mode, llm) ==
    turn_after_call(add_messages(messages, retrieve_call_node(messages)),
                    retrieve_call_node(messages)[1].tool_calls[1],
                    store, tie, fail, mode, llm)

\* graph.invoke for one turn, run to its end: the input message is merged into
\* the thread's checkpoint, then retrieve_call, retrieve_tool and answer run, each
\* update checkpointed; a stage that raises ends the turn with what was
\* checkpointed before it.
chat_turn(messages, store, message, tie, fail, mode, llm) ==
    turn_call(add_messages(messages, <<HumanMessage(message)>>), store, tie, fail, mode, llm)

\* The message payloads of /api/chat: a question, and a blank message.
ChatPayloads == {<<"q2">>, <<" ">>}

\* The title payloads of POST /api/threads: none, and a title.
TitlePayloads == {<<>>, <<"Mine">>}

\* The responses of the LLM to the title prompt.
TitleLLMs ==
    { [raises |-> TRUE, content |-> <<>>],
      [raises |-> FALSE, content |-> <<"\"", "Title", "\"">>],
      [raises |-> FALSE, content |-> <<"Other title">>] }

\* The outcomes of the agent's LLM in the turns of the web layer.
TurnLLMs ==
    { [raises |-> TRUE, content |-> <<>>],
      [raises |-> FALSE, content |-> <<"<", "t", ">", "r", "<", "/", "t", ">", "Final answer">>] }

\* the thread ids uuid4() can give: ids nothing holds yet
FreshIds ==
    {t \in Threads : /\ RowsOf(threads, t) = {}
                     /\ checkpoints[t] = <<>>
                     /\ \A r \in Requests : requests[r].thread # t}

\* requests arrive in the order of their slots
Arrives(r) ==
    /\ requests[r].kind = "none"
    /\ r > 1 => requests[r - 1].kind # "none"

\* chat_api up to the call of the agent: the payload is read, a blank message is
\* answered 400, otherwise the thread record is looked up
chat_api(r, thread_id, payload_message) ==
    /\ Arrives(r)
    /\ LET message == StripWs(payload_message)
           thread == get_thread(threads, thread_id)
       IN requests' = [requests EXCEPT ![r] =
            IF message = <<>>
            THEN [NoRequest EXCEPT !.kind = "chat", !.pc = "done", !.thread = thread_id,
                                   !.status = 400]
            ELSE IF thread = NoThread
            THEN [NoRequest EXCEPT !.kind = "chat", !.pc = "title", !.thread = thread_id,
                                   !.message = message]
            ELSE [NoRequest EXCEPT !.kind = "chat", !.pc = "chat", !.thread = thread_id,
                                   !.message = message, !.found = TRUE,
                                   !.title = thread.title]]
    /\ UNCHANGED <<vector_store, retr, gen, think, checkpoints, run, threads, clock,
                   storeVars, titled>>

\* title = agent.generate_thread_title(message)
ChatTitle(r, llm) ==
    /\ requests[r].kind = "chat" /\ requests[r].pc = "title"
    /\ requests' = [requests EXCEPT ![r] =
            IF llm.raises THEN [@ EXCEPT !.pc = "done", !.status = 500]
            ELSE [@ EXCEPT !.pc = "chat", !.title = generate_thread_title(llm.content)]]
    /\ UNCHANGED <<vector_store, retr, gen, think, checkpoints, run, threads, clock,
                   storeVars, titled>>

\* answer = agent.chat(message=message, thread_id=thread_id)
ChatInvoke(r, tie, fail, mode, llm) ==
    /\ requests[r].kind = "chat" /\ requests[r].pc = "chat"
    /\ LET t == requests[r].thread
           turn == chat_turn(checkpoints[t], vector_store, requests[r].message,
                             tie, fail, mode, llm)
       IN /\ checkpoints' = [checkpoints EXCEPT ![t] = turn.messages]
          /\ requests' = [requests EXCEPT ![r] =
                IF turn.outcome = "raised" THEN [@ EXCEPT !.pc = "done", !.status = 500]
                ELSE [@ EXCEPT !.pc = "now", !.answer = turn.answer]]
    /\ UNCHANGED <<vector_store, retr, gen, think, run, threads, clock, storeVars, titled>>

\* create_thread up to its call of _upsert_thread
create_thread(r, thread_id, payload_title) ==
    /\ Arrives(r)
    /\ requests' = [requests EXCEPT ![r] =
            [NoRequest EXCEPT !.kind = "create", !.pc = "now", !.thread = thread_id,
                              !.title = IF StripWs(payload_title) = <<>> THEN NewChat
                                        ELSE StripWs(payload_title)]]
    /\ UNCHANGED <<vector_store, retr, gen, think, checkpoints, run, threads, clock,
                   storeVars, titled>>

\* _upsert_thread: now = _utc_now_iso()
UpsertNow(r) ==
    /\ requests[r].pc = "now"
    /\ requests' = [requests EXCEPT ![r].now = clock, ![r].pc = "select"]
    /\ clock' = clock + 1
    /\ UNCHANGED <<vector_store, retr, gen, think, checkpoints, run, threads,
                   storeVars, titled>>

\* _upsert_thread: the SELECT and exists
UpsertSelect(r) ==
    /\ requests[r].pc = "select"
    /\ requests' = [requests EXCEPT ![r].exists = select_exists(threads, requests[r].thread),
                                    ![r].pc = "write"]
    /\ UNCHANGED <<vector_store, retr, gen, think, checkpoints, run, threads, clock,
                   storeVars, titled>>

\* _upsert_thread: the UPDATE or the INSERT, and the commit; the request is
\* answered 200 (chat), 201 (create-thread) or, when the INSERT raises, 500
UpsertWrite(r) ==
    /\ requests[r].pc = "write"
    /\ LET q == requests[r]
           ok == IF q.kind = "chat" THEN 200 ELSE 201
           ins == insert_thread(threads, q.thread, q.title, q.now, q.message)
       IN IF q.exists
          THEN /\ threads' = update_thread(threads, q.thread, q.title, q.now, q.message)
               /\ requests' = [requests EXCEPT ![r].pc = "done", ![r].status = ok]
          ELSE /\ threads' = ins.table
               /\ requests' = [requests EXCEPT ![r].pc = "done",
                                               ![r].status = IF ins.outcome = "raised"
                                                             THEN 500 ELSE ok]
    /\ UNCHANGED <<vector_store, retr, gen, think, checkpoints, run, clock, storeVars, titled>>

\* SimpleRAGLangGraphAgent.get_thread_messages, on the messages of the thread's
\* checkpoint: the human messages, and the AI messages whose content is not
\* blank
RECURSIVE get_thread_messages(_)
get_thread_messages(messages) ==
    IF messages = <<>> THEN <<>>
    ELSE (IF Head(messages).type = "human"
          THEN <<[role |-> "user", content |-> Head(messages).content]>>
          ELSE IF Head(messages).type = "ai" /\ StripWs(Head(messages).content) # <<>>
          THEN <<[role |-> "assistant",
                  content |-> strip_think_content(Head(messages).content)]>>
          ELSE <<>>)
         \o get_thread_messages(Tail(messages))

\* GET /api/threads/<thread_id>/messages: 404 without a thread record, else the
\* thread's history; the record, once stored, stays, so the two reads are taken
\* in one step
thread_messages(r, thread_id) ==
    /\ Arrives(r)
    /\ requests' = [requests EXCEPT ![r] =
            IF get_thread(threads, thread_id) = NoThread
            THEN [NoRequest EXCEPT !.kind = "messages", !.pc = "done", !.thread = thread_id,
                                   !.status = 404]
            ELSE [NoRequest EXCEPT !.kind = "messages", !.pc = "done", !.thread = thread_id,
                                   !.status = 200, !.found = TRUE,
                                   !.history = get_thread_messages(checkpoints[thread_id])]]
    /\ UNCHANGED <<vector_store, retr, gen, think, checkpoints, run, threads, clock,
                   storeVars, titled>>

\* The thread_id payloads: a thread id, or none.
ThreadPayloads == Threads \cup {""}

\* thread_id = (payload.get("thread_id") or "").strip() or str(uuid4())
HasThreadId(payload_thread) == payload_thread # "" \/ FreshIds # {}

request_thread_id(payload_thread) ==
    IF payload_thread = "" THEN CHOOSE t \in FreshIds : TRUE ELSE payload_thread

ChatApi ==
    \E r \in Requests, payload_thread \in ThreadPayloads, payload_message \in ChatPayloads :
        /\ HasThreadId(payload_thread)
        /\ chat_api(r, request_thread_id(payload_thread), payload_message)

TitleStep == \E r \in Requests, llm \in TitleLLMs : ChatTitle(r, llm)

InvokeStep ==
    \E r \in Requests, fail \in {"none", "search"}, llm \in TurnLLMs :
        ChatInvoke(r, "asc", fail, "raise", llm)

CreateThread ==
    \E r \in Requests, payload_thread \in ThreadPayloads, payload_title \in TitlePayloads :
        /\ HasThreadId(payload_thread)
        /\ create_thread(r, request_thread_id(payload_thread), payload_title)

UpsertStep == \E r \in Requests : UpsertNow(r) \/ UpsertSelect(r) \/ UpsertWrite(r)

ThreadMessages == \E r \in Requests, thread_id \in Threads : thread_messages(r, thread_id)

NextWeb ==
    ChatApi \/ TitleStep \/ InvokeStep \/ CreateThread \/ UpsertStep \/ ThreadMessages

\* The thread the stores hold from an earlier run of the server: one completed
\* turn in its checkpoint, and its record, written at time 0.
OldThread == "t2"

OldTitle == <<"Old">>

\* The index the web server loads at start (vector_store.load_db): the three
\* chunks of the scenario.
WebIndex == <<"A", "B", "C">>

OldMessages ==
    chat_turn(<<>>, WebIndex, <<"q1">>, "asc", "none", "raise",
              [raises |-> FALSE, content |-> <<"Final answer">>]).messages

\* The server starts: the index is loaded, _init_thread_store() finds the table
\* of the earlier run, the checkpoint store holds that run's thread.
InitWeb ==
    /\ vector_store = WebIndex
    /\ retr = NoCall
    /\ gen = NoCall
    /\ think = NoText
    /\ checkpoints = [t \in Threads |-> IF t = OldThread THEN OldMessages ELSE <<>>]
    /\ run = [t \in Threads |-> Idle]
    /\ threads = {Row(OldThread, OldTitle, 0, 0, <<"q1">>)}
    /\ requests = [r \in Requests |-> NoRequest]
    /\ clock = 1
    /\ vector_db = <<>>
    /\ disk = NoFolder
    /\ boot = NoBoot
    /\ upload = NoUpload
    /\ titled = NoTitle

SpecWeb == InitWeb /\ [][NextWeb]_vars


\* --------------------------------------------- ingestion and index folder

\* the Document yt_extractor_robust returns when the transcript cannot be loaded
ErrorDocument == "Y"

\* yt_extractor_robust(url): documents is what the loader gives, fails whether
\* the loader raises
yt_extractor_robust(documents, fails) ==
    IF fails THEN [outcome |-> "returned", docs |-> <<ErrorDocument>>]
    ELSE [outcome |-> "returned", docs |-> documents]

\* pdf_extractor(file_path)
pdf_extractor(documents, fails) ==
    IF fails THEN [outcome |-> "raised", docs |-> <<>>]
    ELSE [outcome |-> "returned", docs |-> documents]

\* web_extractor(url)
web_extractor(documents, fails) ==
    IF fails THEN [outcome |-> "raised", docs |-> <<>>]
    ELSE [outcome |-> "returned", docs |-> documents]

\* the extraction of /upload for one kind of input; "none" is a request with no
\* valid file and no url
extract(source, documents, fails) ==
    CASE source = "pdf" -> pdf_extractor(documents, fails)
      [] source = "youtube" -> yt_extractor_robust(documents, fails)
      [] source = "web" -> web_extractor(documents, fails)
      [] source = "none" -> [outcome |-> "returned", docs |-> <<>>]

\* re_te_sp(documents): the documents of the model are shorter than chunk_size,
\* the splitter gives one chunk for each
re_te_sp(documents, fails) ==
    IF fails THEN [outcome |-> "raised", chunks |-> <<>>]
    ELSE [outcome |-> "returned", chunks |-> documents]

\* FAISSDB.load_into_db(documents) on the index of a FAISSDB
add_documents(index, documents, fails) ==
    IF fails THEN [outcome |-> "raised", index |-> index]
    ELSE [outcome |-> "returned", index |-> index \o documents]

UnreadableFolder == [state |-> "unreadable", index_faiss |-> <<>>, index_pkl |-> <<>>]

\* a save that writes the folder only when there is none yet
save_db_once(index, folder, fails) ==
    IF fails THEN [outcome |-> "raised", folder |-> folder]
    ELSE IF folder.state = "saved" THEN [outcome |-> "returned", folder |-> folder]
    ELSE [outcome |-> "returned",
          folder |-> [state |-> "saved",
                      index_faiss |-> [p \in DOMAIN index |-> ChunkVec[index[p]]],
                      index_pkl |-> index]]

\* FAISSDB.save_db(folder_path): save_local writes the vectors to index.faiss and
\* the documents to index.pkl; a save that fails is taken to fail before it
\* writes
save_db(index, folder, fails) ==
    IF fails THEN [outcome |-> "raised", folder |-> folder]
    ELSE [outcome |-> "returned",
          folder |-> [state |-> "saved",
                      index_faiss |-> [p \in DOMAIN index |-> ChunkVec[index[p]]],
                      index_pkl |-> index]]

\* load_db with no handler around FAISS.load_local
load_db_unguarded(index, folder) ==
    CASE folder.state = "absent" -> [outcome |-> "returned", result |-> FALSE, index |-> index]
      [] folder.state = "unreadable" -> [outcome |-> "raised", result |-> FALSE, index |-> index]
      [] folder.state = "saved" ->
            [outcome |-> "returned", result |-> TRUE,
             index |-> [p \in DOMAIN folder.index_faiss |-> folder.index_pkl[p]]]

\* FAISSDB.load_db(folder_path)
load_db(index, folder) ==
    CASE folder.state = "absent" -> [outcome |-> "returned", result |-> FALSE, index |-> index]
      [] folder.state = "unreadable" ->
            [outcome |-> "returned", result |-> FALSE, index |-> index]
      [] folder.state = "saved" ->
            [outcome |-> "returned", result |-> TRUE,
             index |-> [p \in DOMAIN folder.index_faiss |-> folder.index_pkl[p]]]

\* the number of upload requests of a behaviour
MaxUploads == 2

\* What can fail in an upload request.
UploadFails == {"none", "extract", "chunk", "insert", "save"}

UploadSources == {"pdf", "youtube", "web", "none"}

\* upload() of app.py, run on the index it is given: the status it answers, the
\* index and the folder it leaves
upload_request(index, folder, source, documents, fail) ==
    LET docs == extract(source, documents, fail = "extract")
        split == re_te_sp(docs.docs, fail = "chunk")
        added == add_documents(index, split.chunks, fail = "insert")
        saved == save_db(added.index, folder, fail = "save")
    IN IF docs.outcome = "raised"
       THEN [status |-> 500, extract |-> docs.outcome, chunks |-> <<>>,
             index |-> index, folder |-> folder]
       ELSE IF docs.docs = <<>>
       THEN [status |-> 400, extract |-> docs.outcome, chunks |-> <<>>,
             index |-> index, folder |-> folder]
       ELSE IF split.outcome = "raised" \/ added.outcome = "raised"
       THEN [status |-> 500, extract |-> docs.outcome, chunks |-> <<>>,
             index |-> index, folder |-> folder]
       ELSE IF saved.outcome = "raised"
       THEN [status |-> 500, extract |-> docs.outcome, chunks |-> split.chunks,
             index |-> added.index, folder |-> saved.folder]
       ELSE [status |-> 200, extract |-> docs.outcome, chunks |-> split.chunks,
             index |-> added.index, folder |-> saved.folder]

\* POST /upload of app.py: it works on app.py's own vector_db
AppUpload ==
    \E source \in UploadSources, documents \in Batches, fail \in UploadFails :
        /\ upload.count < MaxUploads
        /\ Len(vector_db) + Len(documents) <= MaxIndex
        /\ LET done == upload_request(vector_db, disk, source, documents, fail)
           IN /\ vector_db' = done.index
              /\ disk' = done.folder
              /\ upload' = [op |-> "upload", count |-> upload.count + 1, source |-> source,
                            fail |-> fail, status |-> done.status, extract |-> done.extract,
                            saved |-> IF done.status = 200 THEN done.index ELSE upload.saved,
                            folder |-> done.folder]
              /\ boot' = [boot EXCEPT !.added = IF done.status = 200 THEN @ \o done.chunks
                                                ELSE @]
        /\ retr' = NoCall
        /\ gen' = NoCall
        /\ UNCHANGED <<vector_store, think, checkpoints, run, webVars, titled>>

\* GET /results of app.py: get_answer(query_text)
Results ==
    \E q \in {<<"q1">>, <<"q2">>}, llm \in TurnLLMs : GetAnswer(q, "asc", "none", llm)

\* The process starts again: app.py builds vector_db and loads the folder
\* (lines 22-24), and importing services.retriever builds and loads
\* vector_store (retriever.py lines 16-20).
Restart ==
    /\ upload.op = "upload"
    /\ boot.op = "none"
    /\ LET loaded == load_db(<<>>, disk)
       IN /\ vector_db' = loaded.index
          /\ vector_store' = load_db(<<>>, disk).index
          /\ boot' = [op |-> "load_db", folder |-> disk, outcome |-> loaded.outcome,
                      result |-> loaded.result, store |-> loaded.index, added |-> <<>>]
    /\ retr' = NoCall
    /\ gen' = NoCall
    /\ UNCHANGED <<think, checkpoints, run, webVars, disk, upload, titled>>

\* The folder is removed, or its files are damaged, from outside the program.
FolderLost ==
    \E folder \in {NoFolder, UnreadableFolder} :
        /\ disk.state = "saved"
        /\ disk' = folder
        /\ UNCHANGED <<vector_store, retr, gen, think, checkpoints, run, webVars,
                       vector_db, boot, upload, titled>>

NextStore == AppUpload \/ Results \/ Restart \/ FolderLost

SpecStore == Init /\ [][NextStore]_vars

\* audio_extractor(file_path)
audio_extractor(documents, fails) ==
    IF fails THEN [outcome |-> "raised", docs |-> <<>>]
    ELSE [outcome |-> "returned", docs |-> documents]

\* the extraction of /api/upload for one kind of input; "none" is a request
\* with no file of a known type and no url
upload_api_extract(source, documents, fails) ==
    CASE source = "pdf" -> pdf_extractor(documents, fails)
      [] source = "audio" -> audio_extractor(documents, fails)
      [] source = "youtube" -> yt_extractor_robust(documents, fails)
      [] source = "web" -> web_extractor(documents, fails)
      [] source = "none" -> [outcome |-> "returned", docs |-> <<>>]

\* upload_api() of app2.py, run on the index it is given: the status it answers,
\* the index and the folder it leaves
upload_api_request(index, folder, source, documents, fail) ==
    LET docs == upload_api_extract(source, documents, fail = "extract")
        split == re_te_sp(docs.docs, fail = "chunk")
        added == add_documents(index, split.chunks, fail = "insert")
        saved == save_db(added.index, folder, fail = "save")
    IN IF docs.outcome = "raised"
       THEN [status |-> 500, extract |-> docs.outcome, chunks |-> <<>>,
             index |-> index, folder |-> folder]
       ELSE IF docs.docs = <<>>
       THEN [status |-> 400, extract |-> docs.outcome, chunks |-> <<>>,
             index |-> index, folder |-> folder]
       ELSE IF split.outcome = "raised" \/ added.outcome = "raised"
       THEN [status |-> 500, extract |-> docs.outcome, chunks |-> <<>>,
             index |-> index, folder |-> folder]
       ELSE IF saved.outcome = "raised"
       THEN [status |-> 500, extract |-> docs.outcome, chunks |-> split.chunks,
             index |-> added.index, folder |-> saved.folder]
       ELSE [status |-> 200, extract |-> docs.outcome, chunks |-> split.chunks,
             index |-> added.index, folder |-> saved.folder]

UploadApiSources == {"pdf", "audio", "youtube", "web", "none"}

\* POST /api/upload of app2.py: it works on retriever.vector_store
UploadApi ==
    \E source \in UploadApiSources, documents \in Batches, fail \in UploadFails :
        /\ upload.count < MaxUploads
        /\ Len(vector_store) + Len(documents) <= MaxIndex
        /\ LET done == upload_api_request(vector_store, disk, source, documents, fail)
           IN /\ vector_store' = done.index
              /\ disk' = done.folder
              /\ upload' = [op |-> "upload_api", count |-> upload.count + 1,
                            source |-> source, fail |-> fail, status |-> done.status,
                            extract |-> done.extract,
                            saved |-> IF done.status = 200 THEN done.index ELSE upload.saved,
                            folder |-> done.folder]
        /\ retr' = NoCall
        /\ gen' = NoCall
        /\ UNCHANGED <<think, checkpoints, run, webVars, vector_db, boot, titled>>

\* The upload requests of the two servers, app.py and app2.py, which keep their
\* index in the same folder.
NextUpload == AppUpload \/ UploadApi

SpecUpload == Init /\ [][NextUpload]_vars

\* ------------------------------------------------------- thread titles

\* The pieces the LLM's title responses are made of: a run of 79 letters, a
\* double quote, a blank, a newline, a letter, and a quote followed by a blank.
TitlePieces ==
    { Rep("a", 79), <<"\"">>, <<" ">>, <<"\n">>, <<"b">>, <<"\"", " ">> }

MaxTitlePieces == 3

\* A response to the title prompt is built piece by piece ...
TitleAppend ==
    \E piece \in TitlePieces :
        /\ ~titled.called
        /\ titled.pieces < MaxTitlePieces
        /\ titled' = [titled EXCEPT !.pieces = @ + 1, !.text = @ \o piece]
        /\ UNCHANGED <<vector_store, retr, gen, think, checkpoints, run, webVars, storeVars>>

\* ... and generate_thread_title returns the title it makes of it.
GenerateThreadTitle ==
    /\ ~titled.called
    /\ titled' = [titled EXCEPT !.called = TRUE, !.title = generate_thread_title(titled.text)]
    /\ UNCHANGED <<vector_store, retr, gen, think, checkpoints, run, webVars, storeVars>>

NextTitle == TitleAppend \/ GenerateThreadTitle

SpecTitle == Init /\ [][NextTitle]_vars

\* ------------------------------------------------------- claims C1 .. C4

RetrCalled == retr.op = "prompt_retriever"

RetrReturned == RetrCalled /\ retr.call.outcome = "returned"

\* len(text.strip()) of the chunk at position p of the store of the observed call
TrimmedLen(p) == Len(StripWs(page_content(retr.store[p])))

\* C1: for every query, every k >= 1 and every index content, a returning
\* prompt_retriever(query, k) returns at most k chunks, each of content length
\* greater than 20 after trimming whitespace.
C1_AtMostKLongChunks ==
    RetrReturned =>
        /\ Len(retr.call.docs) <= retr.k
        /\ \A i \in DOMAIN retr.call.docs : TrimmedLen(retr.call.docs[i]) > 20

\* a call that filled all k places, left survivors out and had candidates dropped
C1_Witness ==
    /\ RetrReturned
    /\ Len(retr.call.docs) = retr.k
    /\ Len(retr.call.filtered) > retr.k
    /\ Len(retr.call.results) > Len(retr.call.filtered)

\* Reference pipeline of C2, stated on positions of the store.
RefDist(p) ==
    LET q == embed(retr.query)
        v == embed(page_content(retr.store[p]))
    IN (q[1] - v[1]) * (q[1] - v[1]) + (q[2] - v[2]) * (q[2] - v[2])

RefCandidateCount == IF 3 * retr.k >= 8 THEN 3 * retr.k ELSE 8

\* cosine(query, chunk at x) > cosine(query, chunk at y), resp. =, on the reals
RefSim(p) ==
    LET q == embed(retr.query)
        v == embed(page_content(retr.store[p]))
        d == q[1] * v[1] + q[2] * v[2]
        nq == q[1] * q[1] + q[2] * q[2]
        nv == v[1] * v[1] + v[2] * v[2]
    IN IF nq = 0 \/ nv = 0 THEN <<0, 1>>
       ELSE <<(IF d >= 0 THEN d * d ELSE 0 - d * d), nv>>

RefSimGreater(x, y) == RefSim(x)[1] * RefSim(y)[2] > RefSim(y)[1] * RefSim(x)[2]

RefSimEqual(x, y) == RefSim(x)[1] * RefSim(y)[2] = RefSim(y)[1] * RefSim(x)[2]

\* place of position p in the stage-1 list
Stage1Place(p) == CHOOSE i \in DOMAIN retr.call.results : retr.call.results[i] = p

\* x is ranked before y by the reference: greater similarity, or equal
\* similarity and earlier in stage 1
RefBefore(x, y) ==
    \/ RefSimGreater(x, y)
    \/ RefSimEqual(x, y) /\ Stage1Place(x) < Stage1Place(y)

Range(f) == {f[i] : i \in DOMAIN f}

RefStage1 ==
    LET res == retr.call.results
    IN /\ Len(res) = (IF RefCandidateCount <= Len(retr.store) THEN RefCandidateCount
                      ELSE Len(retr.store))
       /\ \A i, j \in DOMAIN res : i < j => res[i] # res[j] /\ RefDist(res[i]) <= RefDist(res[j])
       /\ \A p \in DOMAIN retr.store \ Range(res) :
              \A i \in DOMAIN res : RefDist(res[i]) <= RefDist(p)

RefSurvivors == {p \in Range(retr.call.results) : TrimmedLen(p) > 20}

RefResult ==
    LET docs == retr.call.docs
    IN /\ Len(docs) = (IF retr.k <= Cardinality(RefSurvivors) THEN retr.k
                       ELSE Cardinality(RefSurvivors))
       /\ Range(docs) \subseteq RefSurvivors
       /\ \A i, j \in DOMAIN docs : i < j => RefBefore(docs[i], docs[j])
       /\ \A p \in RefSurvivors \ Range(docs) : \A i \in DOMAIN docs : RefBefore(docs[i], p)

\* C2: the result of prompt_retriever(query, k) is the reference pipeline's: the
\* max(3k, 8) nearest index entries in distance order, those of trimmed length
\* <= 20 dropped, the rest in descending cosine similarity to the query with
\* equal similarities in stage-1 order, cut to the first k.
C2_ReferencePipeline == RetrReturned => RefStage1 /\ RefResult

\* a call where stage 1 cut the index, the filter dropped candidates, two
\* survivors tie, and the rerank changed the order of the survivors
C2_Witness ==
    /\ RetrReturned
    /\ Len(retr.store) > RefCandidateCount
    /\ Len(retr.call.results) > Len(retr.call.filtered)
    /\ Len(retr.call.filtered) > retr.k
    /\ \E i, j \in DOMAIN retr.call.docs :
          i < j /\ retr.call.docs[i] # retr.call.docs[j]
                /\ RefSimEqual(retr.call.docs[i], retr.call.docs[j])
    /\ retr.call.docs # SubSeq(retr.call.filtered, 1, retr.k)

\* C3: with an empty index, or with every stage-1 candidate of trimmed length
\* <= 20, prompt_retriever returns the empty list as a normal result: nothing is
\* raised and the reranking stage makes no embedding call.
C3_EmptyIsNormalReturn ==
    ( /\ RetrCalled
      /\ retr.call.raised_in # "similarity_search"
      /\ \A i \in DOMAIN retr.call.results : TrimmedLen(retr.call.results[i]) <= 20 )
    => /\ retr.call.outcome = "returned"
       /\ retr.call.docs = <<>>
       /\ retr.call.embed_calls = 0

\* a non-empty index whose candidates are all short, queried while the
\* reranking embedder would raise if it were called
C3_Witness ==
    /\ RetrCalled
    /\ retr.fail = "embed"
    /\ retr.call.results # <<>>
    /\ \A i \in DOMAIN retr.call.results : TrimmedLen(retr.call.results[i]) <= 20
    /\ retr.call.outcome = "returned"

\* C4: reranking is idempotent: reranking, with the same query, a list that the
\* rerank step produced gives the same order, equal similarities included.
C4_RerankIdempotent ==
    (RetrReturned /\ retr.call.filtered # <<>>) =>
        LET once == rerank(retr.store, retr.query, retr.call.filtered)
        IN /\ rerank(retr.store, retr.query, once) = once
           /\ rerank(retr.store, retr.query, retr.call.docs) = retr.call.docs

\* a reranked result that holds two different chunks of equal similarity
C4_Witness ==
    /\ RetrReturned
    /\ \E i, j \in DOMAIN retr.call.docs :
          i < j /\ retr.store[retr.call.docs[i]] # retr.store[retr.call.docs[j]]
                /\ RefSimEqual(retr.call.docs[i], retr.call.docs[j])
    /\ retr.call.docs # SubSeq(retr.call.filtered, 1, Len(retr.call.docs))

\* ------------------------------------------------------------- claim C7

\* an opening tag, in any letter case, starts at position i of text
OpensAt(text, i) ==
    /\ i + 2 <= Len(text)
    /\ text[i] = "<" /\ text[i + 1] \in {"t", "T"} /\ text[i + 2] = ">"

ClosesAt(text, i) ==
    /\ i + 3 <= Len(text)
    /\ text[i] = "<" /\ text[i + 1] = "/" /\ text[i + 2] \in {"t", "T"} /\ text[i + 3] = ">"

HasOpenTag(text) == \E i \in DOMAIN text : OpensAt(text, i)

\* no '<' in text; Plain: no newline either
NoAngle(text) == \A i \in DOMAIN text : text[i] # "<"

Plain(text) == \A i \in DOMAIN text : text[i] \notin {"<", "\n"}

\* think.text is plain text, one block opened at i and closed at j, plain text
TerminatedBlock(i, j) ==
    LET text == think.text
    IN /\ OpensAt(text, i) /\ ClosesAt(text, j) /\ j >= i + 3
       /\ Plain(SubSeq(text, 1, i - 1))
       /\ NoAngle(SubSeq(text, i + 3, j - 1))
       /\ Plain(SubSeq(text, j + 4, Len(text)))

\* think.text is plain text followed by a block opened at i that is never closed
UnterminatedBlock(i) ==
    LET text == think.text
    IN /\ OpensAt(text, i)
       /\ Plain(SubSeq(text, 1, i - 1))
       /\ \A j \in DOMAIN text : j > i => ~ClosesAt(text, j)

\* C7: the text _strip_think_content produces holds no <think> opening tag in
\* any letter case; a terminated <think>...</think> block is removed and the
\* text around it kept ("<think>reasoning</think>Final answer" gives "Final
\* answer"); an unterminated block is removed up to the end of the text.
C7_NoThinkTagLeft ==
    think.called =>
        /\ ~HasOpenTag(think.cleaned)
        /\ \A i, j \in DOMAIN think.text :
              TerminatedBlock(i, j) =>
                  think.cleaned = StripWs(SubSeq(think.text, 1, i - 1)
                                            \o SubSeq(think.text, j + 4, Len(think.text)))
        /\ \A i \in DOMAIN think.text :
              UnterminatedBlock(i) => think.cleaned = StripWs(SubSeq(think.text, 1, i - 1))

\* an upper-case terminated block with text after it, stripped to that text
C7_Witness ==
    /\ think.called
    /\ \E i, j \in DOMAIN think.text :
          /\ TerminatedBlock(i, j) /\ think.text[i + 1] = "T"
          /\ j > i + 3 /\ j + 4 <= Len(think.text)
    /\ think.cleaned = <<"F">>

\* -------------------------------------------------------- claims C5, C6

GenCalled == gen.op = "get_answer"

\* C5: in get_answer(query), when retrieval returns no chunks the result is
\* exactly the fixed refusal string and the LLM is never invoked; when retrieval
\* returns at least one chunk the LLM is invoked exactly once.
C5_RefusalBeforeLLM ==
    (GenCalled /\ gen.call.retrieval = "returned") =>
        IF gen.call.documents = <<>>
        THEN /\ gen.call.outcome = "returned"
             /\ gen.call.answer =
                  <<"I couldn't find relevant information in the documents. Can I help you with something else?">>
             /\ gen.call.llm_calls = 0
        ELSE gen.call.llm_calls = 1

\* a question on a non-empty index whose candidates are all too short, asked
\* while the LLM would raise if it were invoked
C5_Witness ==
    /\ GenCalled
    /\ gen.store # <<>>
    /\ gen.llm.raises
    /\ gen.call.retrieval = "returned"
    /\ gen.call.documents = <<>>
    /\ gen.call.outcome = "returned"

\* C6: get_answer strips thinking markup before returning: whatever the LLM
\* responds, the returned answer holds no text between <think> tags
\* (case-insensitive, terminated or not), so no opening tag is left in it.
C6_AnswerWithoutThinkMarkup ==
    (GenCalled /\ gen.call.outcome = "returned") => ~HasOpenTag(gen.call.answer)

\* ------------------------------------------------- claims C8, C9, C10

AllStages == <<"retrieve_call", "retrieve_tool", "answer">>

IsPrefix(a, b) == Len(a) <= Len(b) /\ SubSeq(b, 1, Len(a)) = a

\* a turn has ended: chat returned or raised
TurnEnded(t) == run[t].pc \in {"END", "failed"}

\* C8 as stated: every chat turn executes the three stages retrieve_call,
\* retrieve_tool, answer exactly once each, in that order, and then reaches the
\* terminal state: a turn that has ended has run all three and is at END.
C8_EveryTurnRunsAllStages ==
    \A t \in Threads :
        TurnEnded(t) => (run[t].stages = AllStages /\ run[t].pc = "END")

\* C8, amended: the stages a turn has executed are always the first stages of
\* retrieve_call, retrieve_tool, answer, each once and in that order; a turn
\* waiting at a stage has executed exactly the stages before it; a turn reaches
\* the terminal state only after all three; and a turn that does not reach it
\* has ended with an error raised by the last stage it executed (the tool stage
\* or the answer stage).
C8_LinearStagesUnlessRaised ==
    \A t \in Threads :
        /\ IsPrefix(run[t].stages, AllStages)
        /\ run[t].pc = "idle" => run[t].stages = <<>>
        /\ run[t].pc = "retrieve_call" => run[t].stages = <<>>
        /\ run[t].pc = "retrieve_tool" => run[t].stages = <<"retrieve_call">>
        /\ run[t].pc = "answer" => run[t].stages = <<"retrieve_call", "retrieve_tool">>
        /\ run[t].pc = "END" => run[t].stages = AllStages
        /\ run[t].pc = "failed" =>
              \/ run[t].stages = <<"retrieve_call", "retrieve_tool">> /\ ~run[t].tool_done
              \/ run[t].stages = AllStages /\ run[t].llm_calls = 1

\* the second turn of a thread, after a first turn that raised in its tool
\* stage, has run the three stages and is at END
C8_Witness ==
    \E t \in Threads :
        /\ run[t].pc = "END"
        /\ run[t].turn = 2
        /\ run[t].stages = AllStages
        /\ Len(run[t].loaded) = 2

\* C9: in every turn on every thread, whatever turns came before on the thread,
\* the answer stage uses as context the tool-result message produced in the same
\* turn for the turn's user message; when that tool result is empty the final
\* assistant message is the fixed refusal string and the LLM is not invoked,
\* even if earlier turns of the thread had non-empty tool results.
C9_AnswerUsesThisTurnsToolResult ==
    \A t \in Threads :
        run[t].stages = AllStages =>
            /\ run[t].tool_done
            /\ run[t].tool_query = run[t].message
            /\ run[t].context = run[t].tool_result
            /\ IF run[t].tool_result = <<>>
               THEN /\ run[t].llm_calls = 0
                    /\ run[t].pc = "END"
                    /\ checkpoints[t][Len(checkpoints[t])].type = "ai"
                    /\ checkpoints[t][Len(checkpoints[t])].content =
                         <<"I couldn't find relevant information in the documents. Can I help you with something else?">>
                    /\ run[t].answer =
                         <<"I couldn't find relevant information in the documents. Can I help you with something else?">>
               ELSE run[t].llm_calls = 1

\* a turn whose retrieval is empty, ended with the refusal, on a thread whose
\* history holds a non-empty tool result of an earlier turn
C9_Witness ==
    \E t \in Threads :
        /\ run[t].pc = "END"
        /\ run[t].turn = 2
        /\ run[t].tool_result = <<>>
        /\ run[t].llm_calls = 0
        /\ \E i \in DOMAIN run[t].loaded :
              run[t].loaded[i].type = "tool" /\ run[t].loaded[i].content # <<>>

\* C10: the per-thread history is persisted and append-only: every step leaves
\* the messages a thread held as the first messages of what it holds afterwards,
\* in the same order, and a turn that starts on a thread starts with exactly the
\* messages the thread held when its previous turn ended, followed by the new
\* user message.
C10_HistoryAppendOnly ==
    [][\A t \in Threads :
          /\ IsPrefix(checkpoints[t], checkpoints'[t])
          /\ run'[t].turn # run[t].turn =>
                /\ run'[t].loaded = checkpoints[t]
                /\ Len(checkpoints'[t]) = Len(checkpoints[t]) + 1
                /\ checkpoints'[t][Len(checkpoints'[t])].type = "human"
                /\ checkpoints'[t][Len(checkpoints'[t])].content = run'[t].message
                /\ TurnEnded(t) => IsPrefix(run[t].loaded, checkpoints[t])]_vars

\* a second turn on a thread has ended, its history holding the first turn's
\* messages before its own
C10_Witness ==
    \E t \in Threads :
        /\ run[t].pc = "END"
        /\ run[t].turn = 2
        /\ Len(run[t].loaded) = 4
        /\ Len(checkpoints[t]) = 8
        /\ IsPrefix(run[t].loaded, checkpoints[t])

\* ------------------------------------------------ claims C11 .. C14

\* the request r has ended
Answered(r) == requests[r].kind # "none" /\ requests[r].pc = "done"

\* C11: different threads are independent: every step of a request (a chat
\* turn or a create-thread request) for thread_id A leaves the checkpointed
\* messages and the metadata record of every other thread_id B unchanged,
\* under any interleaving of the requests.
C11_OtherThreadsUnchanged ==
    [][\A r \in Requests :
          requests'[r] # requests[r] =>
              \A b \in Threads \ {requests'[r].thread} :
                  /\ checkpoints'[b] = checkpoints[b]
                  /\ RowsOf(threads', b) = RowsOf(threads, b)]_vars

\* two requests for the new thread have written its record (an INSERT, then an
\* UPDATE) and run a turn on it, while the older thread keeps its record and
\* its messages
C11_Witness ==
    /\ \A r \in Requests : Answered(r) /\ requests[r].thread # OldThread
                              /\ requests[r].status \in {200, 201}
    /\ \E r \in Requests : requests[r].exists
    /\ \E t \in Threads : t # OldThread /\ checkpoints[t] # <<>>
    /\ RowsOf(threads, OldThread) = {Row(OldThread, OldTitle, 0, 0, <<"q1">>)}
    /\ checkpoints[OldThread] = OldMessages

\* the thread ids that have a record
StoredIds(table) == {row.id : row \in table}

\* the request r writes the thread record in this step
Writes(r) == requests[r].pc = "write" /\ requests'[r].pc = "done"

\* C12: for any sequence of thread-record writes, the first write for a
\* thread_id stores a record with created_at = updated_at, every later write for
\* the thread_id sets updated_at to the time of that write and leaves created_at
\* unchanged, so created_at <= updated_at holds of every record.
C12_CreatedNotAfterUpdated ==
    [][\A r \in Requests :
          (Writes(r) /\ requests'[r].status \in {200, 201}) =>
              LET t == requests[r].thread
              IN /\ RowsOf(threads, t) = {} =>
                        \A row \in RowsOf(threads', t) :
                            row.created_at = row.updated_at
                 /\ \A old \in RowsOf(threads, t) :
                        \A row \in RowsOf(threads', t) :
                            /\ row.updated_at = requests[r].now
                            /\ row.created_at = old.created_at
                 /\ \A row \in threads' : row.created_at <= row.updated_at]_vars

\* C13: a thread record is created on the first message if absent and updated
\* on every turn: when a chat turn with a non-empty message on thread_id T has
\* ended, a record for T exists and its last_message is that turn's message.
C13_TurnWritesRecord ==
    [][\A r \in Requests :
          (/\ requests[r].kind = "chat"
           /\ requests[r].pc \in {"chat", "write"}
           /\ requests'[r].pc = "done") =>
              /\ RowsOf(threads', requests[r].thread) # {}
              /\ \A row \in RowsOf(threads', requests[r].thread) :
                    row.last_message = requests[r].message]_vars

\* C14: in every reachable state, under any interleaving of chat turns and
\* create-thread requests, the thread store holds at most one record per thread
\* id, and a record once created is never deleted: the set of stored thread ids
\* only grows.
C14_OneRecordPerId ==
    [][/\ \A x, y \in threads' : x.id = y.id => x = y
       /\ StoredIds(threads) \subseteq StoredIds(threads')]_vars

\* two requests have raced to insert the record of the same new thread: one
\* inserted it, the other's INSERT was refused
C14_Witness ==
    /\ \A r \in Requests : Answered(r) /\ ~requests[r].exists
                              /\ requests[r].thread # OldThread
    /\ \E r \in Requests : requests[r].status = 500 /\ requests[r].kind = "create"
    /\ \E r \in Requests : requests[r].status = 200
    /\ Cardinality(threads) = 2

\* ------------------------------------------------------------ claim C23

\* the turns on a thread that ran to END: each stored one answer, an AI message
\* that calls no tool
CompletedTurns(messages) ==
    Cardinality({i \in OfType(messages, "ai") : messages[i].tool_calls = <<>>})

\* C23: after n completed chat turns on a thread, get_thread_messages returns
\* exactly 2n entries that alternate user, assistant in turn order: tool calls
\* and tool results are hidden, and every user message is followed by its
\* assistant reply, the answer the turn returned.
C23_HistoryAlternates ==
    \A t \in Threads :
        run[t].pc = "END" =>
            LET history == get_thread_messages(checkpoints[t])
            IN /\ Len(history) = 2 * CompletedTurns(checkpoints[t])
               /\ \A i \in DOMAIN history :
                     history[i].role = IF i % 2 = 1 THEN "user" ELSE "assistant"
               /\ history[Len(history)].content = run[t].answer

\* ------------------------------------------------ claims C21, C22, C24

\* no request but r is under way
OnlyRequest(r) == \A q \in Requests \ {r} : requests[q].kind = "none" \/ Answered(q)

\* C21: after any sequence of chat turns, turns that failed part-way included,
\* every thread_id that holds checkpointed messages has a thread record: a GET
\* /api/threads/{id}/messages that arrives when no other request is under way,
\* for a thread whose checkpoint holds messages, finds the record and is
\* answered with the history, not with 404.
C21_CheckpointedThreadsHaveRecords ==
    [][\A r \in Requests :
          (/\ requests[r].kind = "none"
           /\ requests'[r].kind = "messages"
           /\ OnlyRequest(r)
           /\ checkpoints[requests'[r].thread] # <<>>) =>
              /\ RowsOf(threads, requests'[r].thread) # {}
              /\ requests'[r].status = 200
              /\ requests'[r].history = get_thread_messages(checkpoints[requests'[r].thread])]_vars

\* C22: once a thread record exists, chat turns never change its title: under
\* any interleaving of chat turns on the same thread_id (no create-thread
\* request addresses the thread), a chat turn that writes the record of a
\* thread that has one leaves the record's title as it was stored.
C22_ChatKeepsTitle ==
    [][\A r \in Requests :
          (/\ Writes(r)
           /\ requests[r].kind = "chat"
           /\ \A q \in Requests :
                 requests[q].thread = requests[r].thread => requests[q].kind # "create") =>
              \A old \in RowsOf(threads, requests[r].thread) :
                  \A row \in RowsOf(threads', requests[r].thread) :
                      row.title = old.title]_vars

\* the request r has run _upsert_thread to its end
Upserted(r) == Answered(r) /\ requests[r].now # 0

\* C24: two concurrent requests that write the thread record of the same, not
\* yet stored thread_id (two first chat turns, or a chat turn and a
\* create-thread request) both complete without a thread-store error: when both
\* found no record in their existence check, neither request fails and exactly
\* one record results.
C24_ConcurrentFirstWritesSucceed ==
    \A r1, r2 \in Requests :
        (/\ r1 # r2
         /\ requests[r1].kind = "chat"
         /\ Upserted(r1) /\ Upserted(r2)
         /\ requests[r1].thread = requests[r2].thread
         /\ ~requests[r1].exists /\ ~requests[r2].exists) =>
            /\ requests[r1].status \in {200, 201}
            /\ requests[r2].status \in {200, 201}
            /\ Cardinality(RowsOf(threads, requests[r1].thread)) = 1

\* ------------------------------------------------ claims C15 .. C17, C20

\* the process has started again and load_db has run
Booted == boot.op = "load_db"

\* C15: load_db on a path that does not exist, or whose contents cannot be
\* read, never raises: it returns False and the index held after the call is the
\* one held before it, the empty index of the start.
C15_LoadFailureIsNotFound ==
    (Booted /\ boot.folder.state \in {"absent", "unreadable"}) =>
        /\ boot.outcome = "returned"
        /\ boot.result = FALSE
        /\ boot.store = <<>>
        /\ vector_store = <<>>

\* an index folder that a successful upload saved and that was damaged before
\* the process started again
C15_Witness ==
    /\ Booted
    /\ boot.folder.state = "unreadable"
    /\ upload.status = 200
    /\ upload.saved # <<>>
    /\ vector_store = <<>>

C17_FailuresAreRaised ==
    /\ (upload.op = "upload" /\ upload.source # "none" /\ upload.fail # "none") =>
          /\ upload.fail = "extract" => upload.extract = "raised"
          /\ upload.status = 500
    /\ (GenCalled /\ (gen.fail # "none" \/ (gen.call.documents # <<>> /\ gen.llm.raises))) =>
          gen.call.outcome = "raised"

\* C20: in app.py, after a successful /upload the chunks it indexed are visible
\* to retrieval: the index a later /results query of the same process searches
\* holds every chunk added by the earlier successful uploads.
C20_UploadedChunksAreSearched ==
    GenCalled =>
        \A p \in DOMAIN boot.added :
            \E i \in DOMAIN gen.store : gen.store[i] = boot.added[p]

\* ------------------------------------------------------------ claim C25

\* an upload request is answered in this step
UploadAnswered == upload'.count = upload.count + 1

\* C25: an upload request that answers with an error status (400 or 500) leaves
\* the in-memory vector index with exactly the entries it had before the
\* request; entries are added only by requests that answer with success.
C25_FailedUploadKeepsIndex ==
    [][/\ (UploadAnswered /\ upload'.status \in {400, 500}) =>
              /\ vector_store' = vector_store
              /\ vector_db' = vector_db
       /\ (vector_store' # vector_store \/ vector_db' # vector_db) =>
              /\ UploadAnswered
              /\ upload'.status = 200]_vars

\* ------------------------------------------------------------ claim C18

\* "[i] Source: <source>\n<content>" for the chunk d at rank i
RefEntry(i, d) ==
    <<"[">> \o Decimal(i) \o <<"]", " ", "Source:", " ">>
        \o (IF metadata_source(d) = NoSource THEN <<"Unknown Source">> ELSE metadata_source(d))
        \o <<"\n">> \o StripWs(page_content(d))

\* the entries of the chunks from rank i on, each but the last followed by
\* "\n\n---\n\n"
RECURSIVE RefContext(_, _, _)
RefContext(store, documents, i) ==
    IF i > Len(documents) THEN <<>>
    ELSE RefEntry(i, store[documents[i]])
            \o (IF i < Len(documents) THEN <<"\n", "\n", "---", "\n", "\n">> ELSE <<>>)
            \o RefContext(store, documents, i + 1)

\* C18: for every retrieved list d1..dn, get_answer and the agent's
\* retriever_tool build the same context string: entry i is
\* "[i] Source: <source>\n<content>", i counted from 1 in rank order, with the
\* chunk's source ("Unknown Source" when missing) and its trimmed content, the
\* entries joined by "\n\n---\n\n".
C18_SameContextString ==
    (GenCalled /\ gen.call.retrieval = "returned" /\ gen.call.documents # <<>>) =>
        /\ gen.call.prompt.context = RefContext(gen.store, gen.call.documents, 1)
        /\ retriever_tool(gen.store, gen.query, top_k, gen.tie, "none").content
              = gen.call.prompt.context

\* a retrieved list of several chunks, one without a source, one whose content
\* is trimmed
C18_Witness ==
    /\ GenCalled
    /\ gen.call.retrieval = "returned"
    /\ Len(gen.call.documents) >= 3
    /\ \E n \in DOMAIN gen.call.documents :
          metadata_source(gen.store[gen.call.documents[n]]) = NoSource
    /\ \E n \in DOMAIN gen.call.documents :
          StripWs(page_content(gen.store[gen.call.documents[n]]))
              # page_content(gen.store[gen.call.documents[n]])

\* ------------------------------------------------------------ claim C19

\* the positions of text that hold no whitespace
Inked(text) == {i \in DOMAIN text : text[i] \notin Whitespace}

\* the positions of S lie next to each other
Adjacent(S) == \A i, j \in S : \A n \in i..j : n \in S

\* text is empty after trimming whitespace and the double quotes around it: it
\* holds nothing but whitespace and double quotes, the quotes in at most two
\* unbroken runs (the opening and the closing quotes)
BlankTitle(text) ==
    /\ \A i \in Inked(text) : text[i] = "\""
    /\ \E m \in 0..Len(text) :
          /\ Adjacent({i \in Inked(text) : i <= m})
          /\ Adjacent({i \in Inked(text) : i > m})

\* C19: generate_thread_title returns a non-empty title of at most 80
\* characters for any output of the LLM, and the placeholder "New Chat" when
\* the output is empty after trimming whitespace and surrounding double quotes.
C19_TitleShortAndNotEmpty ==
    titled.called =>
        /\ titled.title # <<>>
        /\ Len(titled.title) <= 80
        /\ BlankTitle(titled.text) =>
              titled.title = <<"N", "e", "w", " ", "C", "h", "a", "t">>

\* an output longer than 80 characters, cut to its first 80
C19_Witness ==
    /\ titled.called
    /\ Len(titled.text) > 80
    /\ Len(titled.title) = 80
    /\ titled.title = SubSeq(titled.text, 1, 80)

====
